---- MODULE Spec2Model ----
(***************************************************************************)
(* State-machine model of ValentineHeart (src/valentine.py): the animation *)
(* state owned by the object, the per-frame callback _update, and the      *)
(* click / key handlers, driven by the GUI event loop started by run().    *)
(*                                                                         *)
(* Numbers that are floats in the program are kept as exact scaled         *)
(* integers:                                                               *)
(*   k            numerator over KDen = (BUILD_FRAMES-1)^3                 *)
(*   k readout    hundredths (the two decimals printed by '{k:.2f}')       *)
(*   alpha factor numerator over AlphaDen = 10 * (BUILD_FRAMES-1)          *)
(*   amplitude and glow alpha   units of 10^-9                             *)
(*   text alpha   hundredths                                               *)
(***************************************************************************)
EXTENDS Integers, Sequences, FiniteSets, TLC

\* ---------------------------------------------------------------- constants
K_FINAL == 50
BUILD_FRAMES == 100
\* Mutant of PULSE_FRAMES: a pulse window half as long as the build, which is
\* two and a half breaths instead of a whole number of them.
PulseFramesHalfTheBuild == BUILD_FRAMES \div 2
PULSE_FRAMES == 60
INITIAL_FPS == 3
SPLASH_FPS == 15
MAX_FPS == 30
MIN_FPS == 1
BREATH_PERIOD == 20
GLOW_PERIOD == 30
\* figsize=(10, 9) inches at matplotlib's default 100 dpi.
FigWidthPx == 1000
FigHeightPx == 900

\* Bound on the number of splash ticks explored (the counter is unbounded).
MaxSplashTick == 2

Min(a, b) == IF a <= b THEN a ELSE b
Max(a, b) == IF a >= b THEN a ELSE b

\* ------------------------------------------------------------------- events
NoCoord == -1
NoKey == "none"

Keys == {" ", "enter", "r", "q", "escape", "up", "down", "a"}

\* Pointer positions in pixels: no position, the button centre, the button's
\* lower-left and upper-right corners, one pixel left of the button, one pixel
\* above it.
Pointers == { <<NoCoord, NoCoord>>, <<500, 414>>, <<370, 374>>, <<630, 454>>,
              <<369, 414>>, <<500, 455>> }

NoEvent == [type |-> "none", key |-> NoKey, x |-> NoCoord, y |-> NoCoord]
TickEvent == [type |-> "tick", key |-> NoKey, x |-> NoCoord, y |-> NoCoord]
KeyEvent(k) == [type |-> "key", key |-> k, x |-> NoCoord, y |-> NoCoord]
ClickEvent(p) == [type |-> "click", key |-> NoKey, x |-> p[1], y |-> p[2]]

Events == {TickEvent} \cup {KeyEvent(k) : k \in Keys}
              \cup {ClickEvent(p) : p \in Pointers}

\* ----------------------------------------------------------------- messages
MSG_EMPTY == ""
MSG_PAUSED == "Paused - press SPACE to continue"
MSG_COMPLETE == "Made with love and Mathematics"

\* --------------------------------------------------------------- pure maths
KDen == (BUILD_FRAMES - 1) * (BUILD_FRAMES - 1) * (BUILD_FRAMES - 1)
AlphaDen == 10 * (BUILD_FRAMES - 1)

\* np.clip(t, 0, 1) on the rational n/d (d > 0): the clipped numerator.
Clip01(n, d) == IF n < 0 THEN 0 ELSE IF n > d THEN d ELSE n

\* Mutant of EaseInOut: a quadratic ease-in, t*t, instead of the smoothstep.
EaseInOutQuadratic(n, d) == LET c == Clip01(n, d) IN c * c * d

\* _ease_in_out(n/d) = t*t*(3 - 2t) on the clipped t, as a numerator over d^3.
EaseInOut(n, d) == LET c == Clip01(n, d) IN c * c * (3 * d - 2 * c)

\* Mutant of ProgressDen: progress measured against BUILD_FRAMES.
ProgressDenWholeBuild == Max(1, BUILD_FRAMES)

\* Progress of a build frame: t = frame / max(1, BUILD_FRAMES - 1).
ProgressDen == Max(1, BUILD_FRAMES - 1)

\* k of a build frame, numerator over KDen.
BuildK(f) == K_FINAL * EaseInOut(f, ProgressDen)

\* Mutant of BuildAlpha: the fade-in starts from 0 instead of 0.4.
BuildAlphaFromZero(f) == 10 * f

\* alpha_factor = 0.4 + 0.6 * t, numerator over AlphaDen.
BuildAlpha(f) == 4 * ProgressDen + 6 * f

\* f'{k:.2f}': k (numerator over KDen) rounded to the nearest hundredth.
FormatK(kNum) ==
    100 * (kNum \div KDen) + (2 * 100 * (kNum % KDen) + KDen) \div (2 * KDen)

\* sin(2*pi*n/20) and sin(2*pi*n/30) in units of 10^-6.
SinTable20 == << 0, 309017, 587785, 809017, 951057, 1000000, 951057, 809017,
                 587785, 309017, 0, -309017, -587785, -809017, -951057,
                 -1000000, -951057, -809017, -587785, -309017 >>
SinTable30 == << 0, 207912, 406737, 587785, 743145, 866025, 951057, 994522,
                 994522, 951057, 866025, 743145, 587785, 406737, 207912, 0,
                 -207912, -406737, -587785, -743145, -866025, -951057,
                 -994522, -994522, -951057, -866025, -743145, -587785,
                 -406737, -207912 >>
Sin20(n) == SinTable20[(n % BREATH_PERIOD) + 1]
Sin30(n) == SinTable30[(n % GLOW_PERIOD) + 1]

\* amplitude = 0.9 + 0.035 * sin(2*pi*pulse_idx/20), units of 10^-9.
BASE_AMPLITUDE == 900000000
PulseAmplitude(pulse_idx) == BASE_AMPLITUDE + 35 * Sin20(pulse_idx)

\* max(0.0, 0.08 + 0.14 * sin(2*pi*tick/30)), units of 10^-9.
GlowPulse(tick) == Max(0, 80000000 + 140 * Sin30(tick))

\* The data of the three curve layers: nothing, or the curve of (k, amplitude).
EmptyCurve == [shown |-> FALSE, k |-> 0, amplitude |-> 0]
Curve(kNum, amp) == [shown |-> TRUE, k |-> kNum, amplitude |-> amp]

\* -------------------------------------------------------------------- state
VARIABLES
    window,         \* "constructed" | "open" | "closed"
    event,          \* the event the GUI loop is dispatching, or NoEvent
    frame,          \* self._frame
    paused,         \* self._paused
    fps,            \* self._fps
    completed,      \* self._completed
    started,        \* self._started
    splash_tick,    \* self._splash_tick
    interval,       \* self._anim.event_source.interval (ms)
    btn_glow,       \* alpha of self._btn_glow
    curve,          \* data of self._curve_layers
    alpha_factor,   \* factor applied to the three layer alphas
    k_display,      \* text of self._k_display
    message,        \* text of self._message
    message_alpha,  \* alpha of self._message
    first_signal,   \* observer: what the first tick at (Pulsing, BUILD_FRAMES,
                    \* running) did, "unseen" | "fired" | "silent"
    ease_in,        \* easing harness: the argument t as << n, d >> (t = n/d)
    ease_out        \* easing harness: _ease_in_out(t) over d^3, NoResult before

vars == << window, event, frame, paused, fps, completed, started, splash_tick,
           interval, btn_glow, curve, alpha_factor, k_display, message,
           message_alpha, first_signal, ease_in, ease_out >>

\* The observer and the easing harness: not part of the ValentineHeart object.
NoResult == -1
aux == << first_signal, ease_in, ease_out >>

\* Everything but the event loop's own bookkeeping.
heart == << frame, paused, fps, completed, started, splash_tick, interval,
            btn_glow, curve, alpha_factor, k_display, message, message_alpha >>

display == << curve, alpha_factor, k_display, message, message_alpha >>

\* State after ValentineHeart() has been constructed.
Init ==
    /\ window = "constructed"
    /\ event = NoEvent
    /\ frame = 0
    /\ paused = FALSE
    /\ fps = INITIAL_FPS
    /\ completed = FALSE
    /\ started = FALSE
    /\ splash_tick = 0
    /\ interval = 0
    /\ btn_glow = 120000000
    /\ curve = EmptyCurve
    /\ alpha_factor = AlphaDen
    /\ k_display = 0
    /\ message = MSG_EMPTY
    /\ message_alpha = 0
    /\ first_signal = "unseen"
    /\ ease_in = << 0, 1 >>
    /\ ease_out = NoResult

\* run(): create the timer at the splash rate and open the window.
Run ==
    /\ window = "constructed"
    /\ window' = "open"
    /\ interval' = 1000 \div SPLASH_FPS
    /\ UNCHANGED << event, frame, paused, fps, completed, started, splash_tick,
                    btn_glow, curve, alpha_factor, k_display, message,
                    message_alpha, aux >>

\* The event loop picks up the next timer tick, key press or click.
Dispatch(e) ==
    /\ window = "open"
    /\ event = NoEvent
    /\ e.type = "tick" /\ ~started => splash_tick < MaxSplashTick
    /\ event' = e
    /\ UNCHANGED << window, heart, aux >>

\* ------------------------------------------------------------------ _update
\* Mutants of NextFrame: the wrap test off by one; the wrap going to frame 0.
NextFrameLateWrap(f) ==
    IF f + 1 > BUILD_FRAMES + PULSE_FRAMES THEN BUILD_FRAMES ELSE f + 1
NextFrameWrapToZero(f) ==
    IF f + 1 >= BUILD_FRAMES + PULSE_FRAMES THEN 0 ELSE f + 1

\* The frame counter after a drawn frame: advance, and loop the pulse window.
NextFrame(f) ==
    IF f + 1 >= BUILD_FRAMES + PULSE_FRAMES THEN BUILD_FRAMES ELSE f + 1

\* Mutant of Frozen: the pause check is missing.
FrozenNever == FALSE

\* A paused animation skips the frame.
Frozen == paused

\* Mutant of PulseLatch: the flag is flipped instead of latched.
PulseLatchToggle(c) == ~c

\* Mutant of PulseLatch: the flag is never set.
PulseLatchNever(c) == c

\* self._completed after a Pulsing frame: latched on the first one.
PulseLatch(c) == IF ~c THEN TRUE ELSE c

\* Mutant of UpdateSplash: the pulse counter is reduced modulo the glow period.
UpdateSplashModulo ==
    /\ splash_tick' = (splash_tick + 1) % GLOW_PERIOD
    /\ btn_glow' = GlowPulse(splash_tick + 1)
    /\ UNCHANGED << window, frame, paused, fps, completed, started, interval,
                    display >>

\* Splash phase of _update: only the button glow pulses.
UpdateSplash ==
    /\ splash_tick' = splash_tick + 1
    /\ btn_glow' = GlowPulse(splash_tick + 1)
    /\ UNCHANGED << window, frame, paused, fps, completed, started, interval,
                    display >>

\* Phase 1 of _update: one frame of the build.
UpdateBuild ==
    LET k == BuildK(frame) IN
    /\ completed' = FALSE
    /\ curve' = Curve(k, BASE_AMPLITUDE)
    /\ alpha_factor' = BuildAlpha(frame)
    /\ k_display' = FormatK(k)
    /\ frame' = NextFrame(frame)
    /\ UNCHANGED << window, paused, fps, started, splash_tick, interval,
                    btn_glow, message, message_alpha >>

\* Phase 2 of _update: one frame of the breathing heart.
UpdatePulse ==
    LET pulse_idx == frame - BUILD_FRAMES
        k == K_FINAL * KDen
    IN
    /\ completed' = PulseLatch(completed)
    /\ IF ~completed
         THEN message' = MSG_COMPLETE /\ message_alpha' = 70
         ELSE UNCHANGED << message, message_alpha >>
    /\ curve' = Curve(k, PulseAmplitude(pulse_idx))
    /\ alpha_factor' = AlphaDen
    /\ k_display' = FormatK(k)
    /\ frame' = NextFrame(frame)
    /\ UNCHANGED << window, paused, fps, started, splash_tick, interval,
                    btn_glow >>

\* _update(_tick): the per-frame callback.
Update ==
    IF ~started THEN UpdateSplash
    ELSE IF Frozen THEN UNCHANGED << window, heart >>
    ELSE IF frame < BUILD_FRAMES THEN UpdateBuild
    ELSE UpdatePulse

\* --------------------------------------------------------------- interaction
\* Mutant of IsOverButton: the bounds of the rectangle are exclusive.
IsOverButtonExclusive(e) ==
    IF e.x = NoCoord \/ e.y = NoCoord THEN FALSE
    ELSE /\ (500 - 130) * FigWidthPx < 1000 * e.x
         /\ 1000 * e.x < (500 + 130) * FigWidthPx
         /\ (460 - 45) * FigHeightPx < 1000 * e.y
         /\ 1000 * e.y < (460 + 45) * FigHeightPx

\* _is_over_button: pixel -> figure coordinates, then the rectangle test
\* 0.5 -+ 0.13 by 0.46 -+ 0.045 (in thousandths, cross-multiplied).
IsOverButton(e) ==
    IF e.x = NoCoord \/ e.y = NoCoord THEN FALSE
    ELSE /\ (500 - 130) * FigWidthPx <= 1000 * e.x
         /\ 1000 * e.x <= (500 + 130) * FigWidthPx
         /\ (460 - 45) * FigHeightPx <= 1000 * e.y
         /\ 1000 * e.y <= (460 + 45) * FigHeightPx

\* Mutant of StartAnimation: the timer is left at the splash rate.
StartAnimationKeepsSplashRate ==
    /\ started' = TRUE
    /\ UNCHANGED << window, frame, paused, fps, completed, splash_tick,
                    interval, btn_glow, display >>

\* _start_animation: leave the splash screen, switch the timer to self._fps.
StartAnimation ==
    /\ started' = TRUE
    /\ interval' = 1000 \div fps
    /\ UNCHANGED << window, frame, paused, fps, completed, splash_tick,
                    btn_glow, display >>

\* _on_click
OnClick(e) ==
    IF ~started /\ IsOverButton(e) THEN StartAnimation
    ELSE UNCHANGED << window, heart >>

\* Mutants of the key classes: Enter does not start; only q quits; Enter
\* pauses as well.
IsSplashStartKeySpaceOnly(k) == k = " "
IsQuitKeyOnlyQ(k) == k = "q"
IsPauseKeyWithEnter(k) == k \in {" ", "enter"}

\* Key classes of _on_key_press.
IsSplashStartKey(k) == k \in {" ", "enter"}
IsQuitKey(k) == k \in {"q", "escape"}
IsPauseKey(k) == k = " "
IsRestartKey(k) == k = "r"

\* Mutant of SplashGate: before start only the start and quit keys end at the
\* gate, the other keys fall through to the post-start branches.
SplashGateStartQuitOnly ==
    ~started /\ event.key \in {" ", "enter", "q", "escape"}

\* Mutant of SplashGate: before start Space is not caught by the gate and
\* falls through to the pause branch.
SplashGateMissesSpace ==
    ~started /\ event.key # " "

\* The splash gate of _on_key_press: before start every key ends here.
SplashGate == ~started

\* plt.close('all'): the window closes and run() returns.
Quit ==
    /\ window' = "closed"
    /\ UNCHANGED heart

\* Mutant of TogglePause: resuming always clears the message.
TogglePauseClearsOnResume ==
    /\ paused' = ~paused
    /\ IF paused'
         THEN message' = MSG_PAUSED /\ message_alpha' = 60
         ELSE message' = MSG_EMPTY /\ message_alpha' = 0
    /\ UNCHANGED << window, frame, fps, completed, started, splash_tick,
                    interval, btn_glow, curve, alpha_factor, k_display >>

\* Space after start: toggle pause and show the matching message.
TogglePause ==
    /\ paused' = ~paused
    /\ IF paused'
         THEN message' = MSG_PAUSED /\ message_alpha' = 60
         ELSE IF completed
                THEN message' = MSG_COMPLETE /\ message_alpha' = 70
                ELSE message' = MSG_EMPTY /\ message_alpha' = 0
    /\ UNCHANGED << window, frame, fps, completed, started, splash_tick,
                    interval, btn_glow, curve, alpha_factor, k_display >>

\* Mutant of Restart: the completion latch is not cleared.
RestartKeepsLatch ==
    /\ frame' = 0
    /\ paused' = FALSE
    /\ message' = MSG_EMPTY
    /\ message_alpha' = 0
    /\ curve' = EmptyCurve
    /\ k_display' = 0
    /\ UNCHANGED << window, completed, fps, started, splash_tick, interval,
                    btn_glow, alpha_factor >>

\* Mutant of Restart: the pause flag is not cleared.
RestartKeepsPause ==
    /\ frame' = 0
    /\ completed' = FALSE
    /\ message' = MSG_EMPTY
    /\ message_alpha' = 0
    /\ curve' = EmptyCurve
    /\ k_display' = 0
    /\ UNCHANGED << window, paused, fps, started, splash_tick, interval,
                    btn_glow, alpha_factor >>

\* Mutant of Restart: the status message is left on screen.
RestartKeepsMessage ==
    /\ frame' = 0
    /\ completed' = FALSE
    /\ paused' = FALSE
    /\ curve' = EmptyCurve
    /\ k_display' = 0
    /\ UNCHANGED << window, fps, started, splash_tick, interval, btn_glow,
                    alpha_factor, message, message_alpha >>

\* 'r' after start: restart the animation from scratch.
Restart ==
    /\ frame' = 0
    /\ completed' = FALSE
    /\ paused' = FALSE
    /\ message' = MSG_EMPTY
    /\ message_alpha' = 0
    /\ curve' = EmptyCurve
    /\ k_display' = 0
    /\ UNCHANGED << window, fps, started, splash_tick, interval, btn_glow,
                    alpha_factor >>

\* Mutant of SpeedUp: the cap is missing.
SpeedUpUnclamped(f) == f + 1

\* The new self._fps for 'up' and 'down'.
SpeedUp(f) == Min(MAX_FPS, f + 1)
SpeedDown(f) == Max(MIN_FPS, f - 1)

\* Mutant of SetSpeed: a speed change also resumes a paused animation.
SetSpeedResumes(f) ==
    /\ fps' = f
    /\ interval' = 1000 \div f
    /\ paused' = FALSE
    /\ UNCHANGED << window, frame, completed, started, splash_tick,
                    btn_glow, display >>

\* 'up' / 'down' after start: change self._fps and the timer interval.
SetSpeed(f) ==
    /\ fps' = f
    /\ interval' = 1000 \div f
    /\ UNCHANGED << window, frame, paused, completed, started, splash_tick,
                    btn_glow, display >>

\* _on_key_press
OnKeyPress(e) ==
    IF SplashGate THEN
        IF IsSplashStartKey(e.key) THEN StartAnimation
        ELSE IF IsQuitKey(e.key) THEN Quit
        ELSE UNCHANGED << window, heart >>
    ELSE IF IsPauseKey(e.key) THEN TogglePause
    ELSE IF IsRestartKey(e.key) THEN Restart
    ELSE IF IsQuitKey(e.key) THEN Quit
    ELSE IF e.key = "up" THEN SetSpeed(SpeedUp(fps))
    ELSE IF e.key = "down" THEN SetSpeed(SpeedDown(fps))
    ELSE UNCHANGED << window, heart >>

\* --------------------------------------------------------------- event loop
\* The callback connected to the dispatched event runs to completion.
HandleTick ==
    /\ event.type = "tick"
    /\ Update
    /\ event' = NoEvent
    /\ UNCHANGED aux

HandleKey ==
    /\ event.type = "key"
    /\ OnKeyPress(event)
    /\ event' = NoEvent
    /\ UNCHANGED aux

HandleClick ==
    /\ event.type = "click"
    /\ OnClick(event)
    /\ event' = NoEvent
    /\ UNCHANGED aux

Next ==
    \/ Run
    \/ \E e \in Events : Dispatch(e)
    \/ HandleTick
    \/ HandleKey
    \/ HandleClick

Spec == Init /\ [][Next]_vars

\* ------------------------------------------------------ the splash screen
\* A session in which the user never starts the animation: timer ticks, the
\* keys that do not start, and clicks that miss the button.
MaxSplashOnly == 31

SplashEvents ==
    { e \in Events : /\ ~(e.type = "key" /\ IsSplashStartKey(e.key))
                     /\ ~(e.type = "click" /\ IsOverButton(e)) }

SplashDispatch(e) ==
    /\ window = "open"
    /\ event = NoEvent
    /\ e.type = "tick" => splash_tick < MaxSplashOnly
    /\ event' = e
    /\ UNCHANGED << window, heart, aux >>

SplashNext ==
    \/ Run
    \/ \E e \in SplashEvents : SplashDispatch(e)
    \/ HandleTick
    \/ HandleKey
    \/ HandleClick

SplashSpec == Init /\ [][SplashNext]_vars

\* ------------------------------------------------------------ the observer
\* The session of Spec, watched by an observer that notes what the first
\* unpaused tick at frameIndex = BUILD_FRAMES did: emit the completion signal
\* ("fired") or not ("silent").
ObsHandleTick ==
    /\ event.type = "tick"
    /\ Update
    /\ event' = NoEvent
    /\ first_signal' =
          IF first_signal = "unseen" /\ started /\ ~paused
                /\ frame = BUILD_FRAMES
            THEN IF ~completed /\ completed' THEN "fired" ELSE "silent"
            ELSE first_signal
    /\ UNCHANGED << ease_in, ease_out >>

ObsNext ==
    \/ Run
    \/ \E e \in Events : Dispatch(e)
    \/ ObsHandleTick
    \/ HandleKey
    \/ HandleClick

ObsSpec == Init /\ [][ObsNext]_vars

\* ------------------------------------------------------- the fair session
\* A session with the events that matter for progress (tick, Space, r, q and a
\* click on the button), in which the timer keeps firing for as long as the
\* window is open and every dispatched callback runs.
LiveEvents ==
    { TickEvent, KeyEvent(" "), KeyEvent("r"), KeyEvent("q"),
      ClickEvent(<< 500, 414 >>) }

LiveNext ==
    \/ Run
    \/ \E e \in LiveEvents : Dispatch(e)
    \/ HandleTick
    \/ HandleKey
    \/ HandleClick

LiveSpec ==
    /\ Init
    /\ [][LiveNext]_vars
    /\ WF_vars(Run)
    /\ SF_vars(Dispatch(TickEvent))
    /\ WF_vars(HandleTick)
    /\ WF_vars(HandleKey)
    /\ WF_vars(HandleClick)

\* ------------------------------------------------------ the easing harness
\* _ease_in_out applied to one argument t = n/d: every denominator up to
\* MaxEaseDen and the build's own (BUILD_FRAMES - 1), every numerator from
\* just below 0 to just above d.
MaxEaseDen == 20

EaseInputs ==
    UNION { { << n, d >> : n \in -1 .. (d + 1) }
            : d \in (1 .. MaxEaseDen) \cup {ProgressDen} }

EaseInit ==
    /\ window = "constructed"
    /\ event = NoEvent
    /\ frame = 0
    /\ paused = FALSE
    /\ fps = INITIAL_FPS
    /\ completed = FALSE
    /\ started = FALSE
    /\ splash_tick = 0
    /\ interval = 0
    /\ btn_glow = 120000000
    /\ curve = EmptyCurve
    /\ alpha_factor = AlphaDen
    /\ k_display = 0
    /\ message = MSG_EMPTY
    /\ message_alpha = 0
    /\ first_signal = "unseen"
    /\ ease_in \in EaseInputs
    /\ ease_out = NoResult

EaseApply ==
    /\ ease_out = NoResult
    /\ ease_out' = EaseInOut(ease_in[1], ease_in[2])
    /\ UNCHANGED << window, event, heart, first_signal, ease_in >>

EaseSpec == EaseInit /\ [][EaseApply]_vars

\* ---------------------------------------------------------------- typing
TypeOK ==
    /\ window \in {"constructed", "open", "closed"}
    /\ event \in Events \cup {NoEvent}
    /\ frame \in 0 .. (BUILD_FRAMES + PULSE_FRAMES)
    /\ paused \in BOOLEAN
    /\ fps \in Int
    /\ completed \in BOOLEAN
    /\ started \in BOOLEAN
    /\ splash_tick \in 0 .. MaxSplashTick
    /\ message \in {MSG_EMPTY, MSG_PAUSED, MSG_COMPLETE}

\* ------------------------------------------------------------- step shapes
\* Steps in which the callback of the dispatched event runs.
TickHandled == event = TickEvent /\ event' = NoEvent
KeyHandled(k) == event = KeyEvent(k) /\ event' = NoEvent
ClickHandled == event.type = "click" /\ event' = NoEvent

\* ---------------------------------------------------------------------- C1
\* C1: once started, 0 <= frameIndex < BUILD_FRAMES + PULSE_FRAMES (= 160) in
\* every reachable state, and the tick that would bring frameIndex to
\* BUILD_FRAMES + PULSE_FRAMES sets it to BUILD_FRAMES instead.
C1_FrameInRange ==
    /\ [](started => (0 <= frame /\ frame < BUILD_FRAMES + PULSE_FRAMES
                      /\ frame < 160))
    /\ [][(TickHandled /\ started /\ ~paused
             /\ frame + 1 = BUILD_FRAMES + PULSE_FRAMES)
          => frame' = BUILD_FRAMES]_vars

\* The frame counter has just wrapped: back at BUILD_FRAMES with the latch set.
C1_Witness ==
    /\ started /\ completed /\ event = NoEvent
    /\ frame = BUILD_FRAMES
    /\ curve = Curve(K_FINAL * KDen, PulseAmplitude(PULSE_FRAMES - 1))

\* ---------------------------------------------------------------------- C2
\* C2: once Pulsing (frameIndex >= BUILD_FRAMES), every step keeps frameIndex
\* within [BUILD_FRAMES, BUILD_FRAMES + PULSE_FRAMES) unless it is the handling
\* of a restart ('r') key: ticks, pause/resume and speed changes never lead
\* back to Building.
C2_PulsingOnlyLeftByRestart ==
    [][frame >= BUILD_FRAMES
       => \/ (frame' >= BUILD_FRAMES /\ frame' < BUILD_FRAMES + PULSE_FRAMES)
          \/ (KeyHandled("r") /\ frame' = 0)]_vars

\* Pulsing, past the first lap, paused once and with the speed changed.
C2_Witness ==
    /\ started /\ completed /\ paused
    /\ frame > BUILD_FRAMES
    /\ fps = MAX_FPS
    /\ curve.amplitude # BASE_AMPLITUDE

\* ---------------------------------------------------------------------- C3
\* C3: the completion signal (completedBuildOnce false -> true, completion
\* message shown) fires only on an unpaused tick with frameIndex >=
\* BUILD_FRAMES; every such tick leaves the latch set and, when the latch was
\* already set, does not touch the message; and the latch is cleared only by
\* a restart.  Hence at most one signal between a start/restart and the next
\* restart, on the first unpaused Pulsing tick.
C3_CompletionOncePerCycle ==
    [][/\ (~completed /\ completed')
            => /\ TickHandled /\ started /\ ~paused /\ frame >= BUILD_FRAMES
               /\ message' = MSG_COMPLETE /\ message_alpha' = 70
       /\ (TickHandled /\ started /\ ~paused /\ frame >= BUILD_FRAMES)
            => /\ completed'
               /\ completed => UNCHANGED << message, message_alpha >>
       /\ (completed /\ ~completed') => KeyHandled("r")]_vars

\* After the wrap the latch is still set and the completion message shown.
C3_Witness ==
    /\ started /\ completed /\ ~paused
    /\ frame = BUILD_FRAMES + 1
    /\ curve = Curve(K_FINAL * KDen, PulseAmplitude(0))
    /\ alpha_factor = AlphaDen
    /\ message = MSG_COMPLETE

\* ---------------------------------------------------------------------- C4
\* C4: a tick handled while paused changes nothing of the animation state or
\* the display; and frameIndex is the same from the step that pauses to the
\* step that resumes (no step into, within or out of a pause changes it,
\* except a restart), so the tick after a resume processes the frame that was
\* current when the pause began.
C4_PausedTickIsNoOp ==
    [][/\ (TickHandled /\ paused) => UNCHANGED << window, heart >>
       /\ (paused \/ paused') => (frame' = frame \/ KeyHandled("r"))]_vars

\* Paused in the middle of the build, paused message on screen.
C4_Witness ==
    /\ started /\ paused /\ event = NoEvent
    /\ frame = 10
    /\ message = MSG_PAUSED
    /\ k_display = FormatK(BuildK(9))

\* ---------------------------------------------------------------------- C5
\* C5: handling a restart ('r') key in any post-Splash state yields
\* frameIndex = 0, completedBuildOnce = false, paused = false, an empty curve
\* and an empty message, with started still true.
C5_RestartResets ==
    [][(KeyHandled("r") /\ started)
       => /\ frame' = 0 /\ ~completed' /\ ~paused'
          /\ curve' = EmptyCurve
          /\ message' = MSG_EMPTY /\ message_alpha' = 0
          /\ started']_vars

\* Restarted out of the build: cleared, with the fade-in factor of the frame
\* that was on screen.
C5_Witness ==
    /\ started /\ ~paused /\ ~completed /\ event = NoEvent
    /\ frame = 0
    /\ curve = EmptyCurve
    /\ message = MSG_EMPTY
    /\ alpha_factor # AlphaDen

\* ---------------------------------------------------------------------- C6
\* C6: framesPerSecond stays within [1, 30]; speedUp adds 1 but never exceeds
\* 30 and speedDown subtracts 1 but never goes below 1.
C6_SpeedClamped ==
    /\ [](fps >= 1 /\ fps <= 30)
    /\ [][/\ (KeyHandled("up") /\ started)
               => fps' = IF fps < 30 THEN fps + 1 ELSE 30
          /\ (KeyHandled("down") /\ started)
               => fps' = IF fps > 1 THEN fps - 1 ELSE 1]_vars

\* The upper clamp has been reached.
C6_Witness == started /\ fps = 30 /\ interval = 33

\* ---------------------------------------------------------------------- C7
\* C7: a start command in Splash (click inside the button, Space or Enter) sets
\* started and leaves frameIndex = 0, paused = false, completedBuildOnce =
\* false; and a tick handled in that state draws Building frame 0 with k = 0.
C7_StartEntersBuilding ==
    [][/\ (~started /\ (\/ KeyHandled(" ")
                        \/ KeyHandled("enter")
                        \/ (ClickHandled /\ IsOverButton(event))))
            => started' /\ frame' = 0 /\ ~paused' /\ ~completed'
       /\ (TickHandled /\ started /\ ~paused /\ frame = 0)
            => /\ curve' = Curve(0, BASE_AMPLITUDE)
               /\ k_display' = 0
               /\ frame' = 1]_vars

\* Started after the most Splash ticks explored; the first build frame drawn.
C7_Witness ==
    /\ started /\ splash_tick = MaxSplashTick
    /\ frame = 1
    /\ curve = Curve(0, BASE_AMPLITUDE)
    /\ alpha_factor = 4 * (BUILD_FRAMES - 1)

\* ---------------------------------------------------------------------- C8
\* C8 (as claimed): after start, a Space key press and an Enter key press each
\* toggle the paused flag.
C8_SpaceAndEnterToggle ==
    [][(started /\ (KeyHandled(" ") \/ KeyHandled("enter")))
       => paused' = ~paused]_vars

\* C8 (amended): after start, a Space key press toggles the paused flag, in
\* Building and in Pulsing; an Enter key press after start changes nothing.
C8_OnlySpaceToggles ==
    [][/\ (started /\ KeyHandled(" ")) => paused' = ~paused
       /\ (started /\ KeyHandled("enter")) => UNCHANGED << window, heart >>]_vars

\* Paused in Pulsing by a Space key press.
C8_Witness ==
    /\ started /\ paused /\ completed /\ event = NoEvent
    /\ frame >= BUILD_FRAMES
    /\ message = MSG_PAUSED

\* ---------------------------------------------------------------------- C9
\* C9: the machine starts in Splash (started = false, frameIndex = 0); while
\* in Splash, frameIndex = 0, paused = false, completedBuildOnce = false and
\* framesPerSecond = 3, and ticks and the keys r, Up, Down leave started
\* false: a tick only advances the pulse counter (and the glow), those keys
\* change nothing.
C9_SplashIsInert ==
    /\ [](window = "constructed" => ~started)
    /\ [](~started => (frame = 0 /\ ~paused /\ ~completed /\ fps = 3))
    /\ [][/\ (TickHandled /\ ~started)
               => /\ ~started' /\ splash_tick' = splash_tick + 1
                  /\ UNCHANGED << window, frame, paused, fps, completed,
                                  interval, display >>
          /\ (~started /\ (\/ KeyHandled("r")
                           \/ KeyHandled("up")
                           \/ KeyHandled("down")))
               => UNCHANGED << window, heart >>]_vars

\* Still in Splash after the most Splash ticks explored.
C9_Witness ==
    /\ window = "open" /\ ~started /\ event = NoEvent
    /\ splash_tick = MaxSplashTick
    /\ btn_glow = GlowPulse(MaxSplashTick)

\* --------------------------------------------------------------------- C10
\* C10: handling a q or Escape key press closes the window (the run ends) in
\* every state: Splash, Building or Pulsing, paused or not.
C10_QuitAlwaysCloses ==
    [][(KeyHandled("q") \/ KeyHandled("escape")) => window' = "closed"]_vars

\* Closed while paused in Pulsing.
C10_Witness ==
    /\ window = "closed"
    /\ started /\ paused /\ frame >= BUILD_FRAMES

\* --------------------------------------------------------------------- C11
\* C11: every unpaused Building tick advances frameIndex by one, so the 100th
\* tick of a build is the one at frameIndex = BUILD_FRAMES - 1; that tick has
\* progress t = 1, computes k = K_FINAL (= 50, shown as 50.00) and leaves
\* frameIndex = BUILD_FRAMES (Pulsing); the following Pulsing tick computes the
\* same k, so k does not jump when Pulsing begins.
C11_HundredthTickReachesKFinal ==
    [][/\ (TickHandled /\ started /\ ~paused /\ frame < BUILD_FRAMES)
            => frame' = frame + 1
       /\ (TickHandled /\ started /\ ~paused /\ frame = BUILD_FRAMES - 1)
            => /\ frame' = BUILD_FRAMES
               /\ curve'.k = 50 * KDen
               /\ curve'.k = K_FINAL * KDen
               /\ k_display' = 5000
       /\ (TickHandled /\ started /\ ~paused /\ frame = BUILD_FRAMES)
            => curve'.k = curve.k \/ ~curve.shown]_vars

\* The 100th build tick has just run: Pulsing begins with k = 50 on screen.
C11_Witness ==
    /\ started /\ ~paused /\ ~completed /\ event = NoEvent
    /\ frame = BUILD_FRAMES
    /\ curve = Curve(K_FINAL * KDen, BASE_AMPLITUDE)
    /\ k_display = 5000

\* --------------------------------------------------------------------- C12
\* C12 (as claimed): in every post-start state the timer interval in
\* milliseconds equals 1000/fps, i.e. interval * fps = 1000.
C12_IntervalIsExactQuotient ==
    started => interval * fps = 1000

\* C12 (amended): in every post-start state, so after start and after every
\* speedUp or speedDown, the timer interval is 1000/fps rounded down to a whole
\* number of milliseconds (floor(1000/fps)), for every fps in 1..30.
C12_IntervalIsFloorQuotient ==
    started => /\ fps >= 1 /\ fps <= 30
               /\ interval * fps <= 1000
               /\ 1000 < (interval + 1) * fps

\* A speed whose quotient is not whole: 7 fps, 142 ms.
C12_Witness ==
    /\ started /\ event = NoEvent
    /\ fps = 7
    /\ interval = 142

\* --------------------------------------------------------------------- C13
\* C13: a click starts the animation exactly when it comes before start and
\* lies inside the button region, i.e. its figure coordinates (x / width,
\* y / height) are within 0.13 of 0.5 and within 0.045 of 0.46, bounds
\* inclusive; every other click (outside the region or without coordinates
\* before start, any click after start) leaves started, frameIndex, paused,
\* completedBuildOnce and framesPerSecond unchanged.
C13_ClickStartsOnlyOnButton ==
    [][ClickHandled
       => LET dx == 1000 * event.x - 500 * FigWidthPx
              dy == 1000 * event.y - 460 * FigHeightPx
              inside == /\ event.x # NoCoord /\ event.y # NoCoord
                        /\ dx <= 130 * FigWidthPx /\ -dx <= 130 * FigWidthPx
                        /\ dy <= 45 * FigHeightPx /\ -dy <= 45 * FigHeightPx
          IN IF ~started /\ inside
               THEN started' /\ UNCHANGED << frame, paused, completed, fps >>
               ELSE UNCHANGED << started, frame, paused, completed, fps >>]_vars

\* A click on the corner of the button region is being dispatched in Splash.
C13_Witness ==
    /\ window = "open" /\ ~started
    /\ event = ClickEvent(<< 370, 374 >>)

\* --------------------------------------------------------------------- C14
\* C14 (as claimed): in Splash the pulse counter is advanced modulo 30, so it
\* stays in 0..29 after any number of Splash ticks.
C14_CounterStaysBelowPeriod ==
    ~started => (splash_tick >= 0 /\ splash_tick <= 29)

\* C14 (amended): in Splash each tick advances the pulse counter by exactly 1
\* and the counter is not reduced modulo 30 (after 30 Splash ticks it is 30);
\* only the glow computed from it is periodic with period 30.
C14_CounterCountsEveryTick ==
    [][(TickHandled /\ ~started)
       => /\ splash_tick' = splash_tick + 1
          /\ btn_glow' = GlowPulse((splash_tick + 1) % 30)]_vars

\* Thirty Splash ticks have run: the counter is 30, the glow is that of tick 0.
C14_Witness ==
    /\ ~started /\ event = NoEvent
    /\ splash_tick = 30
    /\ btn_glow = 80000000

\* --------------------------------------------------------------------- C15
\* C15 (as claimed): the reaction to a tick is determined by (phase,
\* frameIndex, paused, started) alone; in particular every unpaused tick at
\* frameIndex = BUILD_FRAMES (Pulsing, started) emits the completion signal
\* exactly when the first such tick did.
C15_FourFieldsDetermineReaction ==
    [][(TickHandled /\ started /\ ~paused /\ frame = BUILD_FRAMES
          /\ first_signal # "unseen")
       => ((~completed /\ completed') <=> first_signal = "fired")]_vars

\* C15 (amended): every dispatched tick and command is defined in every
\* reachable state, and its effect is determined by (frameIndex, paused,
\* started) together with completedBuildOnce: an unpaused post-start tick
\* emits the completion signal exactly when frameIndex >= BUILD_FRAMES and
\* completedBuildOnce is false, a resume shows the completion message exactly
\* when completedBuildOnce is true and an empty message otherwise, and the
\* next frameIndex, paused and started after a tick are functions of the
\* current ones.
C15_ReactionDeterminedWithLatch ==
    /\ [](event # NoEvent
            => ENABLED (ObsHandleTick \/ HandleKey \/ HandleClick))
    /\ [][/\ (TickHandled /\ started /\ ~paused)
               => /\ (~completed /\ completed' /\ message' = MSG_COMPLETE)
                       <=> (frame >= BUILD_FRAMES /\ ~completed)
                  /\ completed' = (frame >= BUILD_FRAMES)
          /\ TickHandled
               => /\ frame' = IF ~started \/ paused THEN frame
                              ELSE IF frame + 1 = BUILD_FRAMES + PULSE_FRAMES
                                     THEN BUILD_FRAMES
                                     ELSE frame + 1
                  /\ UNCHANGED << paused, started >>
          /\ (KeyHandled(" ") /\ started /\ paused)
               => /\ ~paused'
                  /\ message' = IF completed THEN MSG_COMPLETE ELSE MSG_EMPTY
          /\ (KeyHandled(" ") /\ started /\ ~paused)
               => paused' /\ message' = MSG_PAUSED]_vars

\* Back at frameIndex = BUILD_FRAMES after a lap, running, with the latch set:
\* the same four fields as when the first tick there fired the signal.
C15_Witness ==
    /\ started /\ ~paused /\ event = NoEvent
    /\ frame = BUILD_FRAMES
    /\ completed
    /\ first_signal = "fired"

\* --------------------------------------------------------------------- C16
\* C16 (as claimed): with ticks kept occurring, if the machine is started, is
\* never quit, from some point on is not restarted, and is not left paused
\* forever (it is running again and again), then eventually frameIndex >=
\* BUILD_FRAMES with completedBuildOnce true, and it stays so.
C16_NotPausedForeverCompletes ==
    ( /\ [](window # "closed")
      /\ <>[](event # KeyEvent("r"))
      /\ []<>(started /\ ~paused) )
    => <>[](completed /\ frame >= BUILD_FRAMES)

\* C16 (amended): with ticks kept occurring, if again and again a tick is
\* handled while the machine is started and not paused, and from some point on
\* there is no restart, then eventually frameIndex >= BUILD_FRAMES with
\* completedBuildOnce true, and it stays so (until the next restart, which
\* never comes).
C16_UnpausedTicksComplete ==
    ( /\ []<><<TickHandled /\ started /\ ~paused>>_vars
      /\ <>[](event # KeyEvent("r")) )
    => <>[](completed /\ frame >= BUILD_FRAMES)

\* The build has completed and the heart is breathing, unpaused.
C16_Witness ==
    /\ window = "open" /\ started /\ ~paused
    /\ completed
    /\ frame > BUILD_FRAMES
    /\ message = MSG_COMPLETE

\* --------------------------------------------------------------------- C17
\* C17: paused is only ever true after start (paused => started in every
\* reachable state): a Space key press in Splash starts the animation and
\* leaves paused false.
C17_PausedOnlyAfterStart ==
    /\ [](paused => started)
    /\ [][(KeyHandled(" ") /\ ~started) => (started' /\ ~paused')]_vars

\* Paused right after the start, before any frame has been drawn.
C17_Witness ==
    /\ started /\ paused /\ event = NoEvent
    /\ frame = 0
    /\ curve = EmptyCurve
    /\ message = MSG_PAUSED

\* --------------------------------------------------------------------- C18
\* C18: every frame drawn by an unpaused post-start tick has k in [0, 50] and
\* alphaFactor in [0, 1]; in Building k = 50 * ease(frameIndex / 99) and
\* alphaFactor = 0.4 + 0.6 * frameIndex / 99 (0.4 at frame 0, 1.0 at frame
\* 99), in Pulsing k = 50 and alphaFactor = 1.0.  (k over 99^3, alphaFactor
\* over 990.)
C18_FrameValuesInRange ==
    [][(TickHandled /\ started /\ ~paused)
       => /\ curve'.shown
          /\ 0 <= curve'.k /\ curve'.k <= 50 * (99 * 99 * 99)
          /\ 0 <= alpha_factor' /\ alpha_factor' <= 990
          /\ frame < BUILD_FRAMES
               => /\ curve'.k = 50 * (frame * frame * (3 * 99 - 2 * frame))
                  /\ alpha_factor' = 396 + 6 * frame
                  /\ (frame = 0 => alpha_factor' * 10 = 4 * 990)
                  /\ (frame = 99 => alpha_factor' = 990)
          /\ frame >= BUILD_FRAMES
               => /\ curve'.k = 50 * (99 * 99 * 99)
                  /\ alpha_factor' = 990]_vars

\* Build frame 50 has just been drawn: k = 50 * ease(50/99), alpha 696/990.
C18_Witness ==
    /\ started /\ event = NoEvent
    /\ frame = 51
    /\ curve = Curve(24625000, BASE_AMPLITUDE)
    /\ alpha_factor = 696

\* --------------------------------------------------------------------- C19
\* C19: ease(t) = 3t^2 - 2t^3 on the clamped t has ease(0) = 0, ease(1) = 1,
\* ease(1/2) = 1/2, is non-decreasing and is symmetric, ease(t) = 1 -
\* ease(1 - t); hence over the build frames f = 0..99, k(f) = 50 * ease(f/99)
\* never decreases from one frame to the next and k(f) + k(99 - f) = 50.
\* (With t = n/d, ease is a numerator over d^3 and k over 99^3.)
C19_EaseIsSmoothstep ==
    ease_out # NoResult
    => LET n == ease_in[1]
           d == ease_in[2]
           cube == d * d * d
           ease(m) == EaseInOut(m, d)
       IN /\ n = 0 => ease_out = 0
          /\ n = d => ease_out = cube
          /\ 2 * n = d => 2 * ease_out = cube
          /\ n < 0 => ease_out = 0
          /\ n > d => ease_out = cube
          /\ (0 <= n /\ n <= d) => ease_out = 3 * n * n * d - 2 * n * n * n
          /\ \A m \in -1 .. n : ease(m) <= ease_out
          /\ ease_out + ease(d - n) = cube
          /\ (d = 99 /\ 0 <= n /\ n <= 99)
               => /\ BuildK(n) = 50 * ease_out
                  /\ BuildK(n) + BuildK(99 - n) = 50 * cube
                  /\ n > 0 => BuildK(n - 1) <= BuildK(n)

\* ease has been applied to t = 1/2 and returned 1/2 (4 over 2^3).
C19_Witness ==
    /\ ease_in = << 1, 2 >>
    /\ ease_out = 4

\* --------------------------------------------------------------------- C20
\* C20: in every reachable state completedBuildOnce implies frameIndex >=
\* BUILD_FRAMES, and frameIndex > BUILD_FRAMES implies completedBuildOnce: the
\* latch is never set during Building, and the only Pulsing state with the
\* latch still clear is frameIndex = BUILD_FRAMES.
C20_LatchTracksPhase ==
    /\ completed => frame >= BUILD_FRAMES
    /\ frame > BUILD_FRAMES => completed
    /\ (frame >= BUILD_FRAMES /\ ~completed) => frame = BUILD_FRAMES

\* Pulsing with the latch still clear: paused before the first Pulsing tick.
C20_Witness ==
    /\ started /\ paused /\ event = NoEvent
    /\ frame = BUILD_FRAMES
    /\ ~completed
    /\ message = MSG_PAUSED

\* --------------------------------------------------------------------- C21
\* C21: after start, the status message shown (text and alpha) is a function
\* of (paused, completedBuildOnce) in every reachable state: the pause notice
\* when paused, the completion message when not paused and completedBuildOnce
\* is true, and empty when not paused and completedBuildOnce is false.
C21_MessageFollowsPauseAndLatch ==
    started =>
        << message, message_alpha >> =
            IF paused THEN << MSG_PAUSED, 60 >>
            ELSE IF completed THEN << MSG_COMPLETE, 70 >>
            ELSE << MSG_EMPTY, 0 >>

\* The completion message is back on screen after a pause taken in Pulsing at
\* a changed speed: ticks, speed keys and pause toggles have interleaved.
C21_Witness ==
    /\ started /\ ~paused /\ completed /\ event = NoEvent
    /\ frame = BUILD_FRAMES + 1
    /\ fps = INITIAL_FPS + 1
    /\ << message, message_alpha >> = << MSG_COMPLETE, 70 >>

\* --------------------------------------------------------------------- C22
\* C22: the breathing phase is continuous across the pulse-window wrap: on
\* every unpaused Pulsing tick the frame drawn breathes at phase
\* (frameIndex - BUILD_FRAMES) mod 20, and that phase advances by exactly 1
\* modulo 20, including on the tick on which frameIndex wraps from
\* BUILD_FRAMES + PULSE_FRAMES - 1 back to BUILD_FRAMES.
C22_BreathPhaseContinuous ==
    [][(TickHandled /\ started /\ ~paused /\ frame >= BUILD_FRAMES)
         => LET phase == (frame - BUILD_FRAMES) % BREATH_PERIOD
                phase_next == (frame' - BUILD_FRAMES) % BREATH_PERIOD
            IN /\ curve'.amplitude = BASE_AMPLITUDE + 35 * SinTable20[phase + 1]
               /\ phase_next = (phase + 1) % BREATH_PERIOD
               /\ (frame = BUILD_FRAMES + PULSE_FRAMES - 1)
                     => (frame' = BUILD_FRAMES /\ phase = BREATH_PERIOD - 1
                         /\ phase_next = 0)]_vars

\* The wrap tick has just been handled, while running at the lowest speed: the
\* last breath frame of the window is on screen and the phase is back at 0.
C22_Witness ==
    /\ started /\ ~paused /\ completed /\ event = NoEvent
    /\ frame = BUILD_FRAMES
    /\ fps = MIN_FPS
    /\ curve.amplitude = BASE_AMPLITUDE + 35 * SinTable20[BREATH_PERIOD]

\* --------------------------------------------------------------------- C23
\* C23: speed and playback state are independent: handling an Up or Down key
\* leaves frameIndex, paused, completedBuildOnce and started unchanged (also
\* while paused), and handling a restart or a pause/resume after start leaves
\* framesPerSecond and the timer interval unchanged, so a speed chosen before
\* a restart is still in effect after it.
C23_SpeedAndPlaybackIndependent ==
    [][/\ (KeyHandled("up") \/ KeyHandled("down"))
            => UNCHANGED << frame, paused, completed, started >>
       /\ (started /\ (KeyHandled("r") \/ KeyHandled(" ")))
            => UNCHANGED << fps, interval >>
       /\ (started /\ KeyHandled("r"))
            => (frame' = 0 /\ fps' = fps /\ interval' = 1000 \div fps)]_vars

\* Restarted from the middle of a build that runs at the highest speed, with a
\* pause taken along the way: the speed is still the chosen one.
C23_Witness ==
    /\ started /\ ~paused /\ ~completed /\ event = NoEvent
    /\ frame = 0
    /\ curve = EmptyCurve
    /\ alpha_factor = BuildAlpha(5)
    /\ fps = MAX_FPS
    /\ interval = 1000 \div MAX_FPS

====
